---------------------------- MODULE Spec2Model ----------------------------
(***************************************************************************)
(* Church attendance tracker (src/app.py): a Streamlit script that keeps   *)
(* an attendance ledger and a member roster in worksheets of a shared      *)
(* Google spreadsheet.  Every user interaction re-runs the script: it      *)
(* loads the ledgers (through a per-process read cache), runs the handler  *)
(* of the pressed button and, for a mutation, overwrites the worksheet.    *)
(*                                                                         *)
(* A table (pandas DataFrame, worksheet or CSV file) is a frame            *)
(*     [cols |-> sequence of column names, rows |-> sequence of rows]      *)
(* where a row is a sequence of cells aligned with cols and a cell is a    *)
(* string; "" is the blank cell (NaN in pandas).  An integer column holds  *)
(* the decimal numeral of the integer.  A DataFrame whose index is not     *)
(* 0 .. len-1 has a third field, index |-> the labels of its rows.         *)
(* The empty string that the code puts in a column a table lacks is the    *)
(* cell EmptyText: unlike NaN it is grouped and counted.  The name         *)
(* columns of the roster are strings in the code; "" is their empty name.  *)
(***************************************************************************)
EXTENDS Integers, Sequences, FiniteSets, TLC

VARIABLES
    ws,        \* the spreadsheet: worksheet name -> frame
    cache,     \* st.cache_data of each process: ledger -> <<>> or <<frame>>
    is_admin,  \* st.session_state.is_admin of each session
    pc,        \* where each session's script run is
    job,       \* the saves the current run still has to do
    att,       \* the script variable att of each session's latest run
    missing,   \* the absentee list of each session's latest run
    last,      \* the button and the widget values of the latest run
    out,       \* how the latest run ended (message shown)
    view,      \* the tables and charts the latest run drew, and the slider
    writer     \* the session whose save last wrote the attendance sheet

vars == <<ws, cache, is_admin, pc, job, att, missing, last, out, view, writer>>

----------------------------------------------------------------------------
(* Bounds of the model *)

\* one user at the page: adds are offered while the loaded ledger has fewer
\* rows than this
MaxRows == 1

\* two users at the page: a user checks in a visitor while the loaded ledger
\* has fewer rows than this and does not list the user's own visitor
MaxRace == 2

----------------------------------------------------------------------------
(* Configuration *)

ADMIN_PIN == "1234"
ATTENDANCE_WS == "attendance"
MEMBERS_WS == "members"
ABSENCES_WS == "absences"
ABSENCE_COLS == <<"Timestamp", "ServiceDate", "ServiceName", "Attendee", "Note">>
ATTENDANCE_COLS == <<"Timestamp", "ServiceDate", "ServiceName", "Attendee", "Household", "Notes">>
MEMBER_COLS == <<"FirstName", "LastName", "Attendee", "Notes", "Active">>

Sessions == {"s1", "s2"}
NoSession == "nobody"

----------------------------------------------------------------------------
(* Sequences and frames *)

Range(s) == {s[i] : i \in 1..Len(s)}

\* the list holding f[1], ..., f[n], each element computed once
List(f) == SelectSeq(f, LAMBDA x : TRUE)

\* the element of a set of one element; in The({e(v) : v \in {x}}) the value
\* x is computed once
The(S) == CHOOSE y \in S : TRUE

\* list.index: position of x in s (0 when absent)
RECURSIVE Find(_, _, _)
Find(s, x, i) == IF i > Len(s) THEN 0 ELSE IF s[i] = x THEN i ELSE Find(s, x, i + 1)
IndexOf(s, x) == Find(s, x, 1)

\* the empty string '' as the cell of a DataFrame ("" is NaN)
EmptyText == "''"

\* df[c] of one row; "" when the frame has no such column
Cell(df, r, c) == LET i == IndexOf(df.cols, c) IN IF i = 0 THEN "" ELSE r[i]

\* DataFrame.empty
IsEmpty(df) == Len(df.rows) = 0 \/ Len(df.cols) = 0

\* the default index of a DataFrame of n rows
RangeIndex(n) == List([i \in 1..n |-> i - 1])

\* df.index: the label of each row
Index(df) == IF "index" \in DOMAIN df THEN df.index ELSE RangeIndex(Len(df.rows))

\* the DataFrame of these columns and rows whose rows have these labels
Frame(cols, rows, labels) ==
    IF labels = RangeIndex(Len(rows)) THEN [cols |-> cols, rows |-> rows]
    ELSE [cols |-> cols, rows |-> rows, index |-> labels]

\* the position (from 1) of the row labelled label, 0 when no row has the label
Loc(df, label) == IndexOf(Index(df), label)

\* df.dropna(how="all"): the rows with a cell that is not blank, each keeping
\* its label
AllBlank(r) == \A i \in 1..Len(r) : r[i] = ""
DropNaAll(df) ==
    The({ Frame(df.cols, List([i \in 1..Len(keep) |-> df.rows[keep[i] + 1]]),
                List([i \in 1..Len(keep) |-> Index(df)[keep[i] + 1]])) :
          keep \in {SelectSeq(RangeIndex(Len(df.rows)), LAMBDA p : ~AllBlank(df.rows[p + 1]))} })

\* the sequence without its element at ordinal position p (0-based)
RemoveAt(s, p) == List([i \in 1..(Len(s) - 1) |-> IF i <= p THEN s[i] ELSE s[i + 1]])

----------------------------------------------------------------------------
(* Strings *)

\* str.strip, on the strings the model draws
strip(s) ==
    CASE s \in {" ", "  ", EmptyText} -> ""
      [] s \in {" Ann", "Ann ", " Ann "} -> "Ann"
      [] s \in {" Bob", "Bob ", " Bob "} -> "Bob"
      [] s \in {" Lee", "Lee ", " Lee "} -> "Lee"
      [] s \in {" Ann Lee", "Ann Lee ", " Ann Lee "} -> "Ann Lee"
      [] s \in {" Bob Lee", "Bob Lee ", " Bob Lee "} -> "Bob Lee"
      [] s \in {" AM", "AM ", " AM "} -> "AM"
      [] s \in {" PM", "PM ", " PM "} -> "PM"
      [] OTHER -> s

\* decimal numerals and the number they denote, in tenths
Numerals == {"-1", "0", "1", "2", "3", "2.5", "-0.5", "10", "20", "30"}
Tenths(s) ==
    CASE s = "-1" -> -10 [] s = "0" -> 0 [] s = "1" -> 10 [] s = "2" -> 20
      [] s = "3" -> 30 [] s = "2.5" -> 25 [] s = "-0.5" -> -5
      [] s = "10" -> 100 [] s = "20" -> 200 [] s = "30" -> 300

\* int(x) of a float: truncation toward zero
Trunc(t) == IF t >= 0 THEN t \div 10 ELSE -((-t) \div 10)

\* str(n) of an integer
IntToStr(n) ==
    CASE n = -1 -> "-1" [] n = 0 -> "0" [] n = 1 -> "1" [] n = 2 -> "2" [] n = 3 -> "3"
      [] n = 10 -> "10" [] n = 20 -> "20" [] n = 30 -> "30"

\* the integer an integer numeral denotes
StrToInt(s) == Trunc(Tenths(s))

\* texts pd.to_numeric reads as an infinite number: inf and infinity, with or
\* without a sign, in any letter case (the spellings the model draws from)
NonFinite == {"inf", "+inf", "-inf", "Inf", "INF", "infinity", "Infinity", "+Infinity", "-Infinity"}

\* astype(int) of an infinite number raises this error
IntCastingNaNError == "IntCastingNaNError"

\* pd.to_numeric(col, errors="coerce").fillna(1).astype(int), one cell: the
\* integer part of a finite number, 1 for a text pandas does not parse as a
\* number (an exponent out of range such as "1e999" included) and for a blank
\* cell, the error for an infinite number
CoerceInt(x) ==
    IF x \in Numerals THEN IntToStr(Trunc(Tenths(x)))
    ELSE IF x \in NonFinite THEN IntCastingNaNError
    ELSE "1"

\* what a function gives when astype(int) raised in it, and the test for it
Raised == [cols |-> <<>>, rows |-> <<>>, error |-> IntCastingNaNError]
IsRaised(df) == "error" \in DOMAIN df

\* str.lower
lower(s) ==
    CASE s = "Ann Lee" -> "ann lee" [] s = "Bob Lee" -> "bob lee" [] s = "Ann" -> "ann"
      [] s = "Bob" -> "bob" [] s = "Lee" -> "lee" [] OTHER -> s

\* Series.astype(str) of one cell: NaN becomes the string "nan"
AsStr(x) == IF x = "" THEN "nan" ELSE x

\* sorted(names): the names of the set in lexicographic order
SortOrder == <<"", "Ann", "Ann Lee", "Bob", "Bob Lee", "Lee">>
Sorted(S) == SelectSeq(SortOrder, LAMBDA n : n \in S)

----------------------------------------------------------------------------
(* Normalisation, load and save of the ledgers *)

EmptyFrame(cols) == [cols |-> cols, rows |-> <<>>]

\* a worksheet after ws.clear(): no cell holds a value, the header included
ClearedSheet == [cols |-> <<>>, rows |-> <<>>]

ensure_attendance_cols(df) ==
    LET d == IF IsEmpty(df) THEN EmptyFrame(ATTENDANCE_COLS) ELSE df
        has(c) == c \in Range(d.cols)
        text(r, c) == IF has(c) THEN Cell(d, r, c) ELSE EmptyText
        norm(r) == << text(r, "Timestamp"),
                      AsStr(text(r, "ServiceDate")),
                      text(r, "ServiceName"),
                      text(r, "Attendee"),
                      IF has("Household") THEN CoerceInt(Cell(d, r, "Household")) ELSE "1",
                      text(r, "Notes") >>
    IN  The({ IF \E i \in 1..Len(rows) : rows[i][5] = IntCastingNaNError THEN Raised
                  ELSE Frame(ATTENDANCE_COLS, rows, Index(d)) :
              rows \in {List([i \in 1..Len(d.rows) |-> norm(d.rows[i])])} })

ensure_member_cols(df) ==
    LET d == IF IsEmpty(df) THEN EmptyFrame(MEMBER_COLS) ELSE df
        has(c) == c \in Range(d.cols)
        first(r) == strip(Cell(d, r, "FirstName"))
        surname(r) == strip(Cell(d, r, "LastName"))
        norm(r) == << first(r),
                      surname(r),
                      strip(first(r) \o " " \o surname(r)),
                      IF has("Notes") THEN Cell(d, r, "Notes") ELSE EmptyText,
                      IF has("Active") THEN CoerceInt(Cell(d, r, "Active")) ELSE "1" >>
    IN  The({ IF \E i \in 1..Len(rows) : rows[i][5] = IntCastingNaNError THEN Raised
                  ELSE Frame(MEMBER_COLS, rows, Index(d)) :
              rows \in {List([i \in 1..Len(d.rows) |-> norm(d.rows[i])])} })

\* the texts pandas' parser reads as a missing value (NaN), also with dtype=str
NA_VALUES ==
    {"", "#N/A", "#N/A N/A", "#NA", "-1.#IND", "-1.#QNAN", "-NaN", "-nan", "1.#IND", "1.#QNAN",
     "<NA>", "N/A", "NA", "NULL", "NaN", "None", "n/a", "nan", "null"}

\* get_as_dataframe(ws, header=0, dtype=str): the sheet's first row gives the
\* column names, the other rows are parsed by pandas' text parser, which keeps
\* a cell as a string unless its text is a missing-value marker
get_as_dataframe(sheet) ==
    [cols |-> sheet.cols,
     rows |-> List([i \in 1..Len(sheet.rows) |->
                 List([k \in 1..Len(sheet.rows[i]) |->
                     IF sheet.rows[i][k] \in NA_VALUES THEN "" ELSE sheet.rows[i][k]])])]

\* load_attendance without the test of the first header cell
load_attendance_NoHeaderTest(sheet) ==
    LET df == get_as_dataframe(sheet)
        ok == ~IsEmpty(df)
    IN  The({ ensure_attendance_cols(d) : d \in {DropNaAll(IF ok THEN df ELSE EmptyFrame(ATTENDANCE_COLS))} })

load_attendance(sheet) ==
    LET df == get_as_dataframe(sheet)
        ok == ~IsEmpty(df) /\ df.cols[1] = "Timestamp"
    IN  The({ ensure_attendance_cols(d) : d \in {DropNaAll(IF ok THEN df ELSE EmptyFrame(ATTENDANCE_COLS))} })

load_members(sheet) ==
    LET df == get_as_dataframe(sheet)
        ok == ~IsEmpty(df) /\ ("FirstName" \in Range(df.cols) \/ "Attendee" \in Range(df.cols))
    IN  The({ ensure_member_cols(d) : d \in {DropNaAll(IF ok THEN df ELSE EmptyFrame(MEMBER_COLS))} })

ensure_absence_cols(df) ==
    LET d == IF IsEmpty(df) THEN EmptyFrame(ABSENCE_COLS) ELSE df
    IN  Frame(ABSENCE_COLS,
              List([i \in 1..Len(d.rows) |->
                  List([k \in 1..Len(ABSENCE_COLS) |->
                      IF ABSENCE_COLS[k] \in Range(d.cols) THEN Cell(d, d.rows[i], ABSENCE_COLS[k])
                      ELSE EmptyText])]),
              Index(d))

load_absences(sheet) ==
    LET df == get_as_dataframe(sheet)
        ok == ~IsEmpty(df) /\ "Attendee" \in Range(df.cols)
    IN  The({ ensure_absence_cols(d) : d \in {DropNaAll(IF ok THEN df ELSE EmptyFrame(ABSENCE_COLS))} })

\* the save a handler asks for: the worksheet and the normalised table that
\* set_with_dataframe writes; caught tells whether the call sits in a try block
save_attendance(df, caught) == [name |-> ATTENDANCE_WS, data |-> ensure_attendance_cols(df), caught |-> caught]
save_members(df, caught) == [name |-> MEMBERS_WS, data |-> ensure_member_cols(df), caught |-> caught]
save_absences(df, caught) == [name |-> ABSENCES_WS, data |-> ensure_absence_cols(df), caught |-> caught]

----------------------------------------------------------------------------
(* Views the script computes on every run *)

\* att[mask]: the rows of the selected service
att_today(a, svc_date, svc_name) ==
    SelectSeq(a.rows, LAMBDA r :
        /\ Cell(a, r, "ServiceDate") = svc_date
        /\ (strip(svc_name) # "" => Cell(a, r, "ServiceName") = strip(svc_name)))

\* active_attendees without the test of the Active column
active_attendees_AllRows(m) ==
    {strip(Cell(m, m.rows[i], "Attendee")) : i \in 1..Len(m.rows)}

\* mem[mem["Active"] == 1]["Attendee"].dropna().astype(str).str.strip().unique()
active_attendees(m) ==
    {strip(Cell(m, m.rows[i], "Attendee")) : i \in {j \in 1..Len(m.rows) : Cell(m, m.rows[j], "Active") = "1"}}

\* att_today["Attendee"].dropna().astype(str).str.strip().unique()
present_today(a, today) ==
    {strip(Cell(a, today[i], "Attendee")) : i \in {j \in 1..Len(today) : Cell(a, today[j], "Attendee") # ""}}

\* missing = sorted(set(active_attendees) - set(present_today)), as a set
absentees(m, a, svc_date, svc_name) ==
    active_attendees(m) \ present_today(a, att_today(a, svc_date, svc_name))

\* to_int of the batch add and of the edit
to_int(x) ==
    IF x \in Numerals
    THEN (IF Trunc(Tenths(x)) > 0 THEN IntToStr(Trunc(Tenths(x))) ELSE "1")
    ELSE "1"

\* sort_values on strings: the strings the model draws, in ascending order
StringOrder == <<"", EmptyText, "2023-12-24", "2023-12-31", "2024-01-07", "AM", "PM", "nan">>
Before(x, y) == IndexOf(StringOrder, x) < IndexOf(StringOrder, y)

\* sum of the Household column over rows
RECURSIVE SumHousehold(_, _)
SumHousehold(a, rows) ==
    IF rows = <<>> THEN 0
    ELSE StrToInt(CoerceInt(Cell(a, Head(rows), "Household"))) + SumHousehold(a, Tail(rows))

\* the (ServiceDate, ServiceName) pairs in the order sort_values gives them
KeyOrder ==
    List([k \in 1..(Len(StringOrder) * Len(StringOrder)) |->
            <<StringOrder[((k - 1) \div Len(StringOrder)) + 1], StringOrder[((k - 1) % Len(StringOrder)) + 1]>>])

\* Totals per Service: groupby(["ServiceDate","ServiceName"]) leaves out the
\* rows whose ServiceName is NaN (ServiceDate is a string after astype(str)),
\* count counts the cells of Attendee that are not NaN, sum adds Household
totals(a) ==
    LET grouped == SelectSeq(a.rows, LAMBDA r : Cell(a, r, "ServiceName") # "")
        of(k) == SelectSeq(grouped, LAMBDA r : <<Cell(a, r, "ServiceDate"), Cell(a, r, "ServiceName")>> = k)
        present == {<<Cell(a, grouped[i], "ServiceDate"), Cell(a, grouped[i], "ServiceName")>> : i \in 1..Len(grouped)}
        keys == SelectSeq(KeyOrder, LAMBDA k : k \in present)
    IN  List([i \in 1..Len(keys) |->
            [ServiceDate |-> keys[i][1],
             ServiceName |-> keys[i][2],
             entries |-> Len(SelectSeq(of(keys[i]), LAMBDA r : Cell(a, r, "Attendee") # "")),
             people |-> SumHousehold(a, of(keys[i]))]])

\* pd.to_datetime(errors="coerce") parses these strings; "nan" and the
\* blank become NaT. In ascending order.
DateOrder == <<"2023-12-24", "2023-12-31", "2024-01-07">>

\* daily: the rows with a date, grouped by it, people the sum of Household
\* (date range and service filter at their defaults: every row)
daily(a) ==
    LET on(d) == SelectSeq(a.rows, LAMBDA r : Cell(a, r, "ServiceDate") = d)
        days == SelectSeq(DateOrder, LAMBDA d : on(d) # <<>>)
    IN  List([i \in 1..Len(days) |-> [Date |-> days[i], people |-> SumHousehold(a, on(days[i]))]])

\* a mean is the fraction num / den; NaN has den 0
NaN == [num |-> 0, den |-> 0]

\* Series.rolling(w, min_periods).mean(): the sum slides along the series
\* (the new value is added, the value leaving the window removed) and is
\* divided by the number of values in the window once there are min_periods
RECURSIVE RollFrom(_, _, _, _, _)
RollFrom(x, w, min_periods, i, sum) ==
    IF i > Len(x) THEN <<>>
    ELSE LET added == sum + x[i]
             kept == IF i > w THEN added - x[i - w] ELSE added
             nobs == IF i > w THEN w ELSE i
         IN  <<IF nobs >= min_periods THEN [num |-> kept, den |-> nobs] ELSE NaN>>
                 \o RollFrom(x, w, min_periods, i + 1, kept)

\* rolling mean that takes windows with fewer than w values too
rolling_mean_MinPeriodsOne(x, w) == RollFrom(x, w, 1, 1, 0)

\* daily["people"].rolling(roll).mean(): min_periods is the window
rolling_mean(x, w) == RollFrom(x, w, w, 1, 0)

----------------------------------------------------------------------------
(* Widget values the model draws *)

Now == "2024-01-07 09:00:00"
Dates == {"2024-01-07"}
FirstNames == {"Ann", ""}
Visitor == [s1 |-> "Ann", s2 |-> "Bob"]
LastNames == {"Lee"}
HouseholdInputs == {1}
HouseholdTexts == {"0"}
NewNames == {"Ann Lee", " "}
Pins == {"1234", " 1234"}
NoteTexts == {"", "unwell"}
EditNotes == {"nan"}

\* uploaded attendance files
AttendanceCsvs ==
    { [cols |-> ATTENDANCE_COLS, rows |-> << <<Now, "2024-01-07", "AM", "Ann Lee", h, "">> >>] : h \in {"0", "inf"} }
    \cup { [cols |-> <<"Timestamp", "ServiceDate", "ServiceName", "Attendee", "Notes">>,
            rows |-> << <<Now, "2024-01-07", "AM", "Ann Lee", "">> >>] }

\* uploaded roster files
RosterCsvs ==
    { [cols |-> <<"Attendee", "Active">>, rows |-> << <<n, "1">> >>] : n \in {"Ann Lee", "Ann"} }
    \cup { [cols |-> <<"Attendee">>, rows |-> << <<"Ann Lee">> >>] }

----------------------------------------------------------------------------
(* One script run *)

NoRun == [op |-> "none", name |-> "", date |-> "", svc |-> "", idx |-> -1, cols |-> <<>>, notes |-> {}, house |-> ""]
Outcome(kind, cols) == [kind |-> kind, cols |-> cols]

\* st.slider("Rolling mean (days)", 1, 8, 3)
Windows == 1..8
DefaultWindow == 3

\* nothing drawn yet
NoView == [summary |-> <<>>, window |-> DefaultWindow, daily |-> <<>>, roll |-> <<>>]

\* a page on which the summary and the dashboard are not drawn
Cleared(v) == [NoView EXCEPT !.window = v.window]

\* the summary and the dashboard of table a with the slider at w; for an
\* empty table the dashboard has no slider and the session drops its value
Drawn(a, w) ==
    IF IsEmpty(a) THEN NoView
    ELSE LET d == daily(ensure_attendance_cols(a))
         IN  [summary |-> totals(ensure_attendance_cols(a)),
              window |-> w,
              daily |-> d,
              roll |-> rolling_mean(List([i \in 1..Len(d) |-> d[i].people]), w)]

\* att = load_attendance(), mem = load_members(), abs_df = load_absences(): the cached table when the
\* process holds one, the worksheet's otherwise
LoadedAtt(s) == IF cache[s].att # <<>> THEN cache[s].att[1] ELSE load_attendance(ws.attendance)
LoadedMem(s) == IF cache[s].mem # <<>> THEN cache[s].mem[1] ELSE load_members(ws.members)
LoadedAbs(s) == IF cache[s].abs # <<>> THEN cache[s].abs[1] ELSE load_absences(ws.absences)
CacheLoaded(s) == [att |-> <<LoadedAtt(s)>>, mem |-> <<LoadedMem(s)>>, abs |-> <<LoadedAbs(s)>>]

\* the loads of lines 182-184 return: no normalisation raises
Loads(s) == ~IsRaised(LoadedAtt(s)) /\ ~IsRaised(LoadedMem(s))

\* the run goes on to the end of the script with table a and shows the views
Shown(s, admin, a, svc_date, svc_name) ==
    /\ att' = [att EXCEPT ![s] = ensure_attendance_cols(a)]
    /\ missing' = [missing EXCEPT ![s] =
            IF admin THEN absentees(LoadedMem(s), ensure_attendance_cols(a), svc_date, svc_name) ELSE {}]
    /\ view' = [view EXCEPT ![s] = Drawn(a, view[s].window)]

\* the values the number input "Row index to edit/delete" can hold in a run
\* (0 .. len(att)-1); they matter when some of them is not a label of att
RowIndexes(admin, a) ==
    IF admin /\ ~IsEmpty(a) /\ "index" \in DOMAIN a THEN Range(RangeIndex(Len(a.rows))) ELSE {0}

\* lines 515-525 of a run: for an admin and a ledger with rows, the inputs of
\* Edit / Delete read att.loc[idx], which raises KeyError when no row of att
\* is labelled idx
EditRaises(admin, a, idx) == admin /\ ~IsEmpty(a) /\ Loc(a, idx) = 0

\* the run of a button that saves nothing: message kind, then the views, then
\* the inputs of Edit / Delete with the row index idx
FinishAt(s, run, kind, cols, admin, idx, svc_date, svc_name) ==
    /\ Loads(s)
    /\ cache' = [cache EXCEPT ![s] = CacheLoaded(s)]
    /\ is_admin' = [is_admin EXCEPT ![s] = admin]
    /\ Shown(s, admin, LoadedAtt(s), svc_date, svc_name)
    /\ last' = [last EXCEPT ![s] = run]
    /\ out' = [out EXCEPT ![s] =
            IF EditRaises(admin, LoadedAtt(s), idx) THEN Outcome("uncaught", {}) ELSE Outcome(kind, cols)]
    /\ UNCHANGED <<ws, pc, job, writer>>

\* the same, the row index being any value the input can hold
Finish(s, run, kind, cols, admin, svc_date, svc_name) ==
    \E idx \in RowIndexes(admin, LoadedAtt(s)) : FinishAt(s, run, kind, cols, admin, idx, svc_date, svc_name)

\* the run of an add button, whose handler saves: the saves start, the views
\* of this run are not reached (st.rerun or the exception comes first)
Start(s, run, a, jobs) ==
    /\ Loads(s)
    /\ cache' = [cache EXCEPT ![s] = CacheLoaded(s)]
    /\ att' = [att EXCEPT ![s] = a]
    /\ job' = [job EXCEPT ![s] = jobs]
    /\ pc' = [pc EXCEPT ![s] = "clear"]
    /\ last' = [last EXCEPT ![s] = run]
    /\ out' = [out EXCEPT ![s] = Outcome("running", {})]
    /\ view' = [view EXCEPT ![s] = Cleared(view[s])]
    /\ UNCHANGED <<ws, is_admin, missing, writer>>

\* the run of a button below the views (edit, delete, the imports, delete
\* service), whose handler saves: the summary, the absentees and the dashboard
\* of the loaded table are drawn, the inputs of Edit / Delete read a row that
\* att has, then the saves start
StartDrawn(s, run, a, jobs, svc_date, svc_name) ==
    /\ Loads(s)
    /\ \E idx \in RowIndexes(is_admin[s], LoadedAtt(s)) : ~EditRaises(is_admin[s], LoadedAtt(s), idx)
    /\ cache' = [cache EXCEPT ![s] = CacheLoaded(s)]
    /\ att' = [att EXCEPT ![s] = a]
    /\ job' = [job EXCEPT ![s] = jobs]
    /\ pc' = [pc EXCEPT ![s] = "clear"]
    /\ last' = [last EXCEPT ![s] = run]
    /\ out' = [out EXCEPT ![s] = Outcome("running", {})]
    /\ missing' = [missing EXCEPT ![s] =
            IF is_admin[s] THEN absentees(LoadedMem(s), ensure_attendance_cols(LoadedAtt(s)), svc_date, svc_name)
            ELSE {}]
    /\ view' = [view EXCEPT ![s] = Drawn(LoadedAtt(s), view[s].window)]
    /\ UNCHANGED <<ws, is_admin, writer>>

Append1(df, row) == [cols |-> df.cols, rows |-> Append(df.rows, row)]

\* the button pressed and the widget values its handler reads
Run(op, name, svc_date, svc_name, idx, cols) ==
    [op |-> op, name |-> name, date |-> svc_date, svc |-> svc_name, idx |-> idx, cols |-> cols, notes |-> {},
     house |-> ""]

\* a run in which no button is pressed (a widget changed, or st.rerun)
Rerun(s, svc_date, svc_name) ==
    /\ pc[s] = "idle"
    /\ Finish(s, Run("rerun", "", svc_date, svc_name, -1, <<>>), "none", {}, is_admin[s], svc_date, svc_name)

\* the slider of the dashboard is moved to w: a run with no button pressed
SlideRoll(s, w, svc_date, svc_name) ==
    LET a == LoadedAtt(s)
    IN  /\ pc[s] = "idle"
        /\ w # view[s].window
        /\ Loads(s)
        /\ ~IsEmpty(a)
        /\ cache' = [cache EXCEPT ![s] = CacheLoaded(s)]
        /\ att' = [att EXCEPT ![s] = ensure_attendance_cols(a)]
        /\ missing' = [missing EXCEPT ![s] =
               IF is_admin[s] THEN absentees(LoadedMem(s), ensure_attendance_cols(a), svc_date, svc_name) ELSE {}]
        /\ view' = [view EXCEPT ![s] = Drawn(a, w)]
        /\ last' = [last EXCEPT ![s] = Run("slide", "", svc_date, svc_name, -1, <<>>)]
        /\ \E idx \in RowIndexes(is_admin[s], a) :
               out' = [out EXCEPT ![s] =
                   IF EditRaises(is_admin[s], a, idx) THEN Outcome("uncaught", {}) ELSE Outcome("none", {})]
        /\ UNCHANGED <<ws, is_admin, pc, job, writer>>

\* Unlock that takes every PIN
Unlock_AnyPin(s, pin, svc_date, svc_name) ==
    /\ pc[s] = "idle"
    /\ ~is_admin[s]
    /\ Finish(s, Run("unlock", pin, svc_date, svc_name, -1, <<>>), "success", {}, TRUE, svc_date, svc_name)

\* sidebar: Unlock, with the text of the PIN input
Unlock(s, pin, svc_date, svc_name) ==
    /\ pc[s] = "idle"
    /\ ~is_admin[s]
    /\ Finish(s, Run("unlock", pin, svc_date, svc_name, -1, <<>>), IF pin = ADMIN_PIN THEN "success" ELSE "error", {},
              pin = ADMIN_PIN, svc_date, svc_name)

\* sidebar: Lock admin
LockAdmin(s, svc_date, svc_name) ==
    /\ pc[s] = "idle"
    /\ is_admin[s]
    /\ Finish(s, Run("lock", "", svc_date, svc_name, -1, <<>>), "none", {}, FALSE, svc_date, svc_name)

\* the attendance row the add handlers build
NewRow(svc_date, svc_name, who, household, notes) ==
    <<Now, svc_date, strip(svc_name), who, household, notes>>

\* mode "From roster": Add attendee
AddFromRoster(s, hh, svc_date, svc_name) ==
    LET a == LoadedAtt(s)
        m == LoadedMem(s)
        options == {Cell(m, m.rows[i], "Attendee") : i \in {j \in 1..Len(m.rows) : Cell(m, m.rows[j], "Active") = "1"}}
    IN  /\ pc[s] = "idle"
        /\ \E selected \in options \cup {""} :
           LET run == Run("roster", selected, svc_date, svc_name, -1, <<>>)
               a2 == Append1(a, NewRow(svc_date, svc_name, selected, IntToStr(hh), ""))
           IN
           IF selected = ""
           THEN Finish(s, run, "warning", {}, is_admin[s], svc_date, svc_name)
           ELSE Start(s, run, a2, <<save_attendance(a2, FALSE)>>)

\* mode "Batch from roster": Add selected attendee(s)
BatchAdd(s, household, svc_date, svc_name) ==
    LET a == LoadedAtt(s)
        m == LoadedMem(s)
        roster == Sorted(active_attendees(m))
    IN  /\ pc[s] = "idle"
        /\ Len(roster) > 0
        /\ \E chosen \in SUBSET Range(roster) :
           LET picked == SelectSeq(roster, LAMBDA n : n \in chosen)
               new_rows == List([i \in 1..Len(picked) |-> NewRow(svc_date, svc_name, picked[i], to_int(household), strip(""))])
               run == Run("batch", IF Len(picked) = 0 THEN "" ELSE picked[1], svc_date, svc_name, -1, <<>>)
               a2 == [cols |-> a.cols, rows |-> a.rows \o new_rows]
           IN  /\ Len(a.rows) + Cardinality(chosen) <= MaxRows
               /\ IF chosen = {}
                  THEN Finish(s, run, "warning", {}, is_admin[s], svc_date, svc_name)
                  ELSE Start(s, run, a2, <<save_attendance(a2, FALSE)>>)

\* mode "Manual entry": Add attendee
ManualAdd(s, first_in, last_in, hh, add_to_roster, svc_date, svc_name) ==
    LET a == LoadedAtt(s)
        m == LoadedMem(s)
        first == strip(first_in)
        surname == strip(last_in)
        full == strip(first \o " " \o surname)
        run == Run("manual", IF first = "" \/ surname = "" THEN "" ELSE full, svc_date, svc_name, -1, <<>>)
        a2 == Append1(a, NewRow(svc_date, svc_name, full, IntToStr(hh), ""))
        exists == \E i \in 1..Len(m.rows) : lower(Cell(m, m.rows[i], "Attendee")) = lower(full)
        m2 == Append1(m, <<first, surname, full, "", "1">>)
    IN  /\ pc[s] = "idle"
        /\ IF first = "" \/ surname = "" \/ strip(svc_name) = ""
           THEN Finish(s, run, "warning", {}, is_admin[s], svc_date, svc_name)
           ELSE Start(s, run, a2,
                      <<save_attendance(a2, FALSE)>>
                      \o (IF add_to_roster /\ ~exists THEN <<save_members(m2, FALSE)>> ELSE <<>>))

\* Attendance Log: Apply edit (admin). new_notes is the text of the New notes
\* input, which shows str() of the Notes cell ("nan" for a blank one) until
\* the user types another text.
ApplyEdit(s, idx, new_name, new_house, new_notes, svc_date, svc_name) ==
    LET a == ensure_attendance_cols(LoadedAtt(s))
        p == Loc(a, idx)
        old == a.rows[p]
        row == [old EXCEPT ![4] = strip(new_name), ![5] = to_int(new_house), ![6] = new_notes]
        a2 == [a EXCEPT !.rows = [a.rows EXCEPT ![p] = row]]
        run == [Run("edit", new_name, "", "", idx, <<>>) EXCEPT !.house = new_house]
    IN  /\ pc[s] = "idle"
        /\ is_admin[s]
        /\ ~IsEmpty(a)
        /\ idx \in 0..(Len(a.rows) - 1)
        /\ IF p = 0
           THEN FinishAt(s, run, "none", {}, TRUE, idx, svc_date, svc_name)
           ELSE StartDrawn(s, run, a2, <<save_attendance(a2, FALSE)>>, svc_date, svc_name)

\* Attendance Log: Delete row (admin): att.drop(index=idx).reset_index(drop=True)
\* drops the row labelled idx; when att has no such row, att.loc[idx] of the
\* inputs above the button has raised KeyError
DeleteRow(s, idx, svc_date, svc_name) ==
    LET a == ensure_attendance_cols(LoadedAtt(s))
        p == Loc(a, idx)
        a2 == [cols |-> a.cols, rows |-> RemoveAt(a.rows, p - 1)]
        run == Run("delete", "", "", "", idx, <<>>)
    IN  /\ pc[s] = "idle"
        /\ is_admin[s]
        /\ ~IsEmpty(a)
        /\ idx \in 0..(Len(a.rows) - 1)
        /\ IF p = 0
           THEN FinishAt(s, run, "none", {}, TRUE, idx, svc_date, svc_name)
           ELSE StartDrawn(s, run, a2, <<save_attendance(a2, FALSE)>>, svc_date, svc_name)

\* sidebar: Delete selected service (admin), the service given by a row of it
DeleteService(s, idx, svc_date, svc_name) ==
    LET a == ensure_attendance_cols(LoadedAtt(s))
        pick == a.rows[idx + 1]
        sdate == Cell(a, pick, "ServiceDate")
        sname == AsStr(Cell(a, pick, "ServiceName"))
        a2 == [cols |-> a.cols,
               rows |-> SelectSeq(a.rows, LAMBDA r :
                   ~(Cell(a, r, "ServiceDate") = sdate /\ Cell(a, r, "ServiceName") = sname))]
    IN  /\ pc[s] = "idle"
        /\ is_admin[s]
        /\ ~IsEmpty(a)
        /\ idx \in 0..(Len(a.rows) - 1)
        /\ StartDrawn(s, Run("delete_service", "", sdate, sname, idx, <<>>), a2, <<save_attendance(a2, FALSE)>>,
                      svc_date, svc_name)

\* st.button(label) in a run: True only in the run the click on it started
st_button(label, pressed) == pressed = label

\* new_rows of Save absence notes: one row per name whose note is not blank
new_absence_rows(names, notes, svc_date, svc_name) ==
    LET order == Sorted(names)
        note(n) == strip(CHOOSE t \in NoteTexts : <<n, t>> \in notes)
        noted == SelectSeq(order, LAMBDA n : note(n) # "")
    IN  List([i \in 1..Len(noted) |-> <<Now, svc_date, strip(svc_name), noted[i], note(noted[i])>>])

\* Absentees: Find absentees for this service (admin)
FindAbsentees(s, svc_date, svc_name) ==
    LET miss == absentees(LoadedMem(s), ensure_attendance_cols(LoadedAtt(s)), svc_date, svc_name)
    IN  /\ pc[s] = "idle"
        /\ is_admin[s]
        /\ Finish(s, Run("find", "", svc_date, svc_name, -1, <<>>), IF miss = {} THEN "success" ELSE "info", {},
                  TRUE, svc_date, svc_name)

\* Absentees: Save absence notes (admin). The button and the note inputs are
\* drawn inside the block of the Find button, so they are on the page of a
\* Find run that found absentees; the click starts a new run of the script.
SaveAbsenceNotes(s) ==
    LET pressed == "Save absence notes"
        svc_date == last[s].date
        svc_name == last[s].svc
        miss == absentees(LoadedMem(s), ensure_attendance_cols(LoadedAtt(s)), svc_date, svc_name)
    IN  /\ pc[s] = "idle"
        /\ is_admin[s]
        /\ last[s].op = "find"
        /\ missing[s] # {}
        /\ \E texts \in [missing[s] -> NoteTexts] :
               LET notes == {<<n, texts[n]>> : n \in missing[s]}
                   run == [Run("save_notes", "", svc_date, svc_name, -1, <<>>) EXCEPT !.notes = notes]
                   new_rows == new_absence_rows(miss, notes, svc_date, svc_name)
                   updated == [cols |-> ABSENCE_COLS, rows |-> LoadedAbs(s).rows \o new_rows]
               IN  IF st_button("Find absentees for this service", pressed) /\ miss # {}
                   THEN IF new_rows # <<>>
                        THEN Start(s, run, ensure_attendance_cols(LoadedAtt(s)), <<save_absences(updated, FALSE)>>)
                        ELSE Finish(s, run, "warning", {}, TRUE, svc_date, svc_name)
                   ELSE Finish(s, run, "none", {}, TRUE, svc_date, svc_name)

\* newdf[ATTENDANCE_COLS]
SelectCols(df, cols) ==
    [cols |-> cols, rows |-> List([i \in 1..Len(df.rows) |-> List([k \in 1..Len(cols) |-> Cell(df, df.rows[i], cols[k])])])]

\* ImportAttendance without the check of the required columns
ImportAttendance_NoColumnCheck(s, newdf, svc_date, svc_name) ==
    /\ pc[s] = "idle"
    /\ is_admin[s]
    /\ IF IsRaised(ensure_attendance_cols(SelectCols(newdf, ATTENDANCE_COLS)))
       THEN Finish(s, Run("import", "", svc_date, svc_name, -1, newdf.cols), "error", {}, TRUE, svc_date, svc_name)
       ELSE StartDrawn(s, Run("import", "", svc_date, svc_name, -1, newdf.cols),
                       ensure_attendance_cols(LoadedAtt(s)),
                       <<save_attendance(SelectCols(newdf, ATTENDANCE_COLS), TRUE)>>, svc_date, svc_name)

\* sidebar: Upload attendance CSV (admin). An infinite Household makes
\* ensure_attendance_cols raise in save_attendance, inside the try block.
ImportAttendance(s, newdf, svc_date, svc_name) ==
    LET lacking == {c \in Range(ATTENDANCE_COLS) : c \notin Range(newdf.cols)}
        run == Run("import", "", svc_date, svc_name, -1, newdf.cols)
    IN  /\ pc[s] = "idle"
        /\ is_admin[s]
        /\ IF lacking # {}
           THEN Finish(s, run, "error", lacking, TRUE, svc_date, svc_name)
           ELSE IF IsRaised(ensure_attendance_cols(SelectCols(newdf, ATTENDANCE_COLS)))
           THEN Finish(s, run, "error", {}, TRUE, svc_date, svc_name)
           ELSE StartDrawn(s, run, ensure_attendance_cols(LoadedAtt(s)),
                           <<save_attendance(SelectCols(newdf, ATTENDANCE_COLS), TRUE)>>, svc_date, svc_name)

\* str.strip().str.split(" ", n=1) of one name
split_name(n) ==
    CASE strip(n) = "Ann Lee" -> <<"Ann", "Lee">>
      [] strip(n) = "Bob Lee" -> <<"Bob", "Lee">>
      [] OTHER -> <<strip(n)>>

\* sidebar: Upload roster CSV (admin). With an Attendee column and no
\* FirstName or LastName column the names are split at the first space;
\* split(expand=True) has no second column when no name holds a space, and
\* split[1] raises inside the try block. Without an Active column
\* mdf.get("Active", 1) is the number 1, pd.to_numeric returns a number and
\* .fillna raises inside the try block, as astype(int) does for an infinite
\* Active.
ImportRoster(s, mdf, svc_date, svc_name) ==
    LET has(c) == c \in Range(mdf.cols)
        splitting == has("Attendee") /\ (~has("FirstName") \/ ~has("LastName"))
        parts(r) == split_name(Cell(mdf, r, "Attendee"))
        width == IF \E i \in 1..Len(mdf.rows) : Len(parts(mdf.rows[i])) = 2 THEN 2 ELSE 1
        part(r, k) == IF Len(parts(r)) >= k THEN parts(r)[k] ELSE ""
        row(r) == << IF splitting THEN part(r, 1) ELSE Cell(mdf, r, "FirstName"),
                     IF splitting THEN part(r, 2) ELSE Cell(mdf, r, "LastName"),
                     Cell(mdf, r, "Attendee"),
                     Cell(mdf, r, "Notes"),
                     CoerceInt(Cell(mdf, r, "Active")) >>
        m2 == [cols |-> MEMBER_COLS, rows |-> List([i \in 1..Len(mdf.rows) |-> row(mdf.rows[i])])]
        run == Run("import_roster", "", svc_date, svc_name, -1, mdf.cols)
    IN  /\ pc[s] = "idle"
        /\ is_admin[s]
        /\ IF (splitting /\ width < 2) \/ ~has("Active")
              \/ \E i \in 1..Len(mdf.rows) : Cell(mdf, mdf.rows[i], "Active") \in NonFinite
           THEN Finish(s, run, "error", {}, TRUE, svc_date, svc_name)
           ELSE StartDrawn(s, run, ensure_attendance_cols(LoadedAtt(s)), <<save_members(m2, TRUE)>>,
                           svc_date, svc_name)

----------------------------------------------------------------------------
(* The steps of a save, and failures of the spreadsheet service *)

\* ws.clear()
SaveClear(s) ==
    /\ pc[s] = "clear"
    /\ ws' = [ws EXCEPT ![job[s][1].name] = ClearedSheet]
    /\ pc' = [pc EXCEPT ![s] = "write"]
    /\ UNCHANGED <<cache, is_admin, job, att, missing, last, out, view, writer>>

\* load_x.clear() of the save that wrote the worksheet called name
Invalidated(c, name) ==
    IF name = ATTENDANCE_WS THEN [c EXCEPT !.att = <<>>]
    ELSE IF name = MEMBERS_WS THEN [c EXCEPT !.mem = <<>>]
    ELSE [c EXCEPT !.abs = <<>>]

\* set_with_dataframe(ws, clean, include_column_header=True) without resize:
\* the header and the rows of the table are written into the rectangle they
\* cover, from cell A1; every cell outside that rectangle keeps its value.
\* An empty string and NaN are both written as a cell without a value.
set_with_dataframe(sheet, data) ==
    LET w == Len(data.cols)
        n == Len(data.rows)
        width == IF Len(sheet.cols) > w THEN Len(sheet.cols) ELSE w
        height == IF Len(sheet.rows) > n THEN Len(sheet.rows) ELSE n
        held(i, k) == IF i <= Len(sheet.rows) /\ k <= Len(sheet.rows[i]) THEN sheet.rows[i][k] ELSE ""
        written(x) == IF x = EmptyText THEN "" ELSE x
    IN  [cols |-> List([k \in 1..width |-> IF k <= w THEN data.cols[k] ELSE sheet.cols[k]]),
         rows |-> List([i \in 1..height |->
                     List([k \in 1..width |-> IF i <= n /\ k <= w THEN written(data.rows[i][k]) ELSE held(i, k)])])]

\* the buttons whose handler stands above the dashboard in the script
AboveDashboard == {"roster", "batch", "manual", "save_notes"}

\* set_with_dataframe(ws, clean, ...), then load_x.clear(); after the last
\* save of the handler the success message and st.rerun(). When st.rerun()
\* ends a run that has not reached the dashboard, the slider was not created
\* in that run and the session drops its value.
SaveWrite(s) ==
    LET j == job[s][1]
    IN  /\ pc[s] = "write"
        /\ ws' = [ws EXCEPT ![j.name] = set_with_dataframe(ws[j.name], j.data)]
        /\ cache' = [cache EXCEPT ![s] = Invalidated(cache[s], j.name)]
        /\ writer' = IF j.name = ATTENDANCE_WS THEN s ELSE writer
        /\ job' = [job EXCEPT ![s] = Tail(job[s])]
        /\ pc' = [pc EXCEPT ![s] = IF Len(job[s]) > 1 THEN "clear" ELSE "idle"]
        /\ out' = [out EXCEPT ![s] = IF Len(job[s]) > 1 THEN out[s] ELSE Outcome("success", {})]
        /\ view' = [view EXCEPT ![s] = IF Len(job[s]) = 1 /\ last[s].op \in AboveDashboard THEN NoView ELSE @]
        /\ UNCHANGED <<is_admin, att, missing, last>>

\* a call of the spreadsheet service raises inside a save: before ws.clear()
\* took effect (pc = "clear") or in set_with_dataframe (pc = "write")
SaveFail(s) ==
    /\ pc[s] \in {"clear", "write"}
    /\ out' = [out EXCEPT ![s] = Outcome(IF job[s][1].caught THEN "error" ELSE "uncaught", {})]
    /\ job' = [job EXCEPT ![s] = <<>>]
    /\ pc' = [pc EXCEPT ![s] = "idle"]
    /\ UNCHANGED <<ws, cache, is_admin, att, missing, last, view, writer>>

\* a call of the spreadsheet service raises inside load_attendance (which =
\* "att") or, after the attendance was loaded, inside load_members ("mem")
\* or, after both were loaded, inside load_absences ("abs"). The sidebar
\* comes before the loads: when the run was started by Unlock (with the text
\* pin) or by Lock admin, is_admin is set before the exception ends the run;
\* the handler of every other button is not reached (button ""). The run
\* holds the tables loaded before the exception and computes no absentees.
LoadFail(s, which, button, pin, svc_date, svc_name) ==
    /\ pc[s] = "idle"
    /\ cache[s][which] = <<>>
    /\ which \in {"mem", "abs"} => ~IsRaised(LoadedAtt(s))
    /\ which = "abs" => ~IsRaised(LoadedMem(s))
    /\ button = "Unlock" => ~is_admin[s]
    /\ button = "Lock admin" => is_admin[s]
    /\ button # "Unlock" => pin = ""
    /\ cache' = [cache EXCEPT ![s] =
            IF which = "mem" THEN [@ EXCEPT !.att = <<LoadedAtt(s)>>]
            ELSE IF which = "abs" THEN [@ EXCEPT !.att = <<LoadedAtt(s)>>, !.mem = <<LoadedMem(s)>>]
            ELSE @]
    /\ is_admin' = [is_admin EXCEPT ![s] =
            IF button = "Unlock" THEN pin = ADMIN_PIN
            ELSE IF button = "Lock admin" THEN FALSE
            ELSE @]
    /\ last' = [last EXCEPT ![s] =
            Run(IF button = "Unlock" THEN "unlock" ELSE IF button = "Lock admin" THEN "lock" ELSE "rerun",
                pin, svc_date, svc_name, -1, <<>>)]
    /\ out' = [out EXCEPT ![s] = Outcome("uncaught", {})]
    /\ view' = [view EXCEPT ![s] = Cleared(view[s])]
    /\ att' = [att EXCEPT ![s] =
            IF which = "att" THEN EmptyFrame(ATTENDANCE_COLS) ELSE ensure_attendance_cols(LoadedAtt(s))]
    /\ missing' = [missing EXCEPT ![s] = {}]
    /\ UNCHANGED <<ws, pc, job, writer>>

\* ensure_attendance_cols raises inside load_attendance, or ensure_member_cols
\* inside load_members after the attendance was loaded: a Household or Active
\* cell of the worksheet reads as an infinite number. The run ends there, as
\* when the spreadsheet service fails; nothing is cached for the failed load.
LoadRaise(s, button, pin, svc_date, svc_name) ==
    \E which \in {"att", "mem"} :
        /\ IsRaised(IF which = "att" THEN LoadedAtt(s) ELSE LoadedMem(s))
        /\ LoadFail(s, which, button, pin, svc_date, svc_name)

\* the spreadsheet open_or_create_spreadsheet makes when gc.open raises: every
\* worksheet is made with its header by open_or_create_ws
NewSpreadsheet ==
    [attendance |-> EmptyFrame(ATTENDANCE_COLS), members |-> EmptyFrame(MEMBER_COLS),
     absences |-> EmptyFrame(ABSENCE_COLS)]

\* gc.open raises APIError in a load of a run of s (an entry of the cache is
\* empty) or in a save before ws.clear(): gc.create makes a new spreadsheet
\* of the same title and no error is shown. The new spreadsheet is taken to
\* be the one the later calls open.
CreateSpreadsheet(s) ==
    /\ \/ pc[s] = "idle" /\ \E which \in {"att", "mem", "abs"} : cache[s][which] = <<>>
       \/ pc[s] = "clear"
    /\ ws # NewSpreadsheet
    /\ ws' = NewSpreadsheet
    /\ UNCHANGED <<cache, is_admin, pc, job, att, missing, last, out, view, writer>>

\* line 182 of a run of s: load_attendance reads the worksheet; the later
\* lines of the run are the next step of s
LoadAttendance(s) ==
    /\ pc[s] = "idle"
    /\ cache[s].att = <<>>
    /\ ~IsRaised(LoadedAtt(s))
    /\ cache' = [cache EXCEPT ![s] = [@ EXCEPT !.att = <<LoadedAtt(s)>>]]
    /\ UNCHANGED <<ws, is_admin, pc, job, att, missing, last, out, view, writer>>

\* line 183 of a run of s, the attendance loaded: load_members reads the
\* worksheet; the later lines of the run are the next step of s
LoadMembers(s) ==
    /\ pc[s] = "idle"
    /\ cache[s].att # <<>>
    /\ cache[s].mem = <<>>
    /\ ~IsRaised(LoadedMem(s))
    /\ cache' = [cache EXCEPT ![s] = [@ EXCEPT !.mem = <<LoadedMem(s)>>]]
    /\ UNCHANGED <<ws, is_admin, pc, job, att, missing, last, out, view, writer>>

\* the ttl of st.cache_data runs out (10 s attendance, 30 s members and absences)
CacheExpire(s, which) ==
    /\ cache[s][which] # <<>>
    /\ cache' = [cache EXCEPT ![s] = [@ EXCEPT ![which] = <<>>]]
    /\ UNCHANGED <<ws, is_admin, pc, job, att, missing, last, out, view, writer>>

----------------------------------------------------------------------------
(* The program *)

Init ==
    /\ ws = [attendance |-> EmptyFrame(ATTENDANCE_COLS), members |-> EmptyFrame(MEMBER_COLS),
             absences |-> EmptyFrame(ABSENCE_COLS)]
    /\ cache = [s \in Sessions |-> [att |-> <<>>, mem |-> <<>>, abs |-> <<>>]]
    /\ is_admin = [s \in Sessions |-> FALSE]
    /\ pc = [s \in Sessions |-> "idle"]
    /\ job = [s \in Sessions |-> <<>>]
    /\ att = [s \in Sessions |-> EmptyFrame(ATTENDANCE_COLS)]
    /\ missing = [s \in Sessions |-> {}]
    /\ last = [s \in Sessions |-> NoRun]
    /\ out = [s \in Sessions |-> Outcome("none", {})]
    /\ view = [s \in Sessions |-> NoView]
    /\ writer = NoSession

\* every button of the page and every step of a run, for session s
Step(s, svc_date, svc_name) ==
    \/ Rerun(s, svc_date, svc_name)
    \/ \E pin \in Pins : Unlock(s, pin, svc_date, svc_name)
    \/ LockAdmin(s, svc_date, svc_name)
    \/ /\ Len(LoadedAtt(s).rows) < MaxRows
       /\ \E hh \in HouseholdInputs : AddFromRoster(s, hh, svc_date, svc_name)
    \/ \E h \in HouseholdTexts : BatchAdd(s, h, svc_date, svc_name)
    \/ /\ Len(LoadedAtt(s).rows) < MaxRows
       /\ \E f \in FirstNames, l \in LastNames, hh \in HouseholdInputs, r \in BOOLEAN :
              ManualAdd(s, f, l, hh, r, svc_date, svc_name)
    \/ \E idx \in 0..MaxRows, n \in NewNames, h \in HouseholdTexts, t \in EditNotes :
           ApplyEdit(s, idx, n, h, t, svc_date, svc_name)
    \/ \E idx \in 0..MaxRows : DeleteRow(s, idx, svc_date, svc_name)
    \/ \E idx \in 0..MaxRows : DeleteService(s, idx, svc_date, svc_name)
    \/ \E csv \in AttendanceCsvs : ImportAttendance(s, csv, svc_date, svc_name)
    \/ \E csv \in RosterCsvs : ImportRoster(s, csv, svc_date, svc_name)
    \/ FindAbsentees(s, svc_date, svc_name)
    \/ SaveAbsenceNotes(s)
    \/ SaveClear(s)
    \/ SaveWrite(s)
    \/ SaveFail(s)
    \/ \E which \in {"att", "mem", "abs"}, button \in {"", "Unlock", "Lock admin"}, pin \in Pins \cup {""} :
           LoadFail(s, which, button, pin, svc_date, svc_name)
    \/ CreateSpreadsheet(s)
    \/ \E which \in {"att", "mem", "abs"} : CacheExpire(s, which)

\* one user at the page
Next == \E svc_date \in Dates : Step("s1", svc_date, "AM")

Spec == Init /\ [][Next]_vars

----------------------------------------------------------------------------
(* Properties of the stored ledgers and of the saves (one user, Spec) *)

SheetNames == {ATTENDANCE_WS, MEMBERS_WS, ABSENCES_WS}

\* the columns of ATTENDANCE_COLS an uploaded file with these columns lacks
Lacking(cols) == {c \in Range(ATTENDANCE_COLS) : c \notin Range(cols)}

\* C1: every row of the stored attendance ledger has an integer Household
\* that is at least 1.
C1_HouseholdAtLeastOne ==
    \A i \in 1..Len(ws.attendance.rows) :
        StrToInt(Cell(ws.attendance, ws.attendance.rows[i], "Household")) >= 1

\* C2: a save is atomic: every step leaves each worksheet as it was or
\* holding the complete new table of a save in progress.
C2_SaveIsAtomic ==
    [][\A n \in SheetNames :
          \/ ws'[n] = ws[n]
          \/ \E s \in Sessions : job[s] # <<>> /\ job[s][1].name = n /\ ws'[n] = job[s][1].data]_vars

\* what the next load_attendance / load_members of session s returns
NextLoadAtt(s) == LoadedAtt(s)
NextLoadMem(s) == LoadedMem(s)

\* C4: when a save that has started to change the worksheet ends (written or
\* failed), the next load of that ledger returns the table the worksheet now
\* holds.
C4_CacheInvalidatedOnMutation ==
    [][\A s \in Sessions :
          (pc[s] = "write" /\ pc'[s] # "write") =>
              IF job[s][1].name = ATTENDANCE_WS
              THEN NextLoadAtt(s)' = load_attendance(ws'.attendance)
              ELSE NextLoadMem(s)' = load_members(ws'.members)]_vars

\* C5: an attendance import whose file lacks a required column ends with an
\* error naming the lacking columns, starts no save and leaves every
\* worksheet unchanged.
C5_ImportRejectsMissingColumns ==
    [][\A s \in Sessions :
          ( /\ last'[s] # last[s] \/ out'[s] # out[s]
            /\ last'[s].op = "import"
            /\ Lacking(last'[s].cols) # {} )
          => /\ ws' = ws
             /\ pc'[s] = "idle"
             /\ job'[s] = <<>>
             /\ out'[s] = Outcome("error", Lacking(last'[s].cols))]_vars

\* C5 witness: a file without the Household column was rejected while the
\* ledger held a row, which is still there.
C5_Witness ==
    \E s \in Sessions :
        /\ last[s].op = "import"
        /\ "Household" \in Lacking(last[s].cols)
        /\ out[s] = Outcome("error", {"Household"})
        /\ pc[s] = "idle"
        /\ Len(ws.attendance.rows) > 0

\* C6: no run ends with an uncaught error.
C6_NoUncaughtError == \A s \in Sessions : out[s].kind # "uncaught"

\* C8: an add or an edit whose attendee name is blank, or an add whose
\* service name is blank, is aborted with a warning and starts no save.
C8_BlankFieldAborts ==
    \A s \in Sessions :
        ( \/ last[s].op \in {"roster", "batch", "manual", "edit"} /\ strip(last[s].name) = ""
          \/ last[s].op \in {"roster", "batch", "manual"} /\ strip(last[s].svc) = "" )
        => pc[s] = "idle" /\ job[s] = <<>> /\ out[s].kind = "warning"

----------------------------------------------------------------------------
(* Two running instances on the shared spreadsheet (SpecRace) *)

\* the loaded ledger of s lists the visitor of s
Listed(s) ==
    \E i \in 1..Len(LoadedAtt(s).rows) : LoadedAtt(s).rows[i][4] = Visitor[s] \o " Lee"

\* each user checks in an own visitor; the script's steps interleave
NextRace ==
    \E s \in Sessions, svc_date \in Dates :
        \/ Rerun(s, svc_date, "AM")
        \/ /\ Len(LoadedAtt(s).rows) < MaxRace /\ ~Listed(s)
           /\ \E r \in BOOLEAN : ManualAdd(s, Visitor[s], "Lee", 1, r, svc_date, "AM")
        \/ /\ Len(LoadedAtt(s).rows) < MaxRace /\ ~Listed(s)
           /\ AddFromRoster(s, 1, svc_date, "AM")
        \/ SaveClear(s)
        \/ SaveWrite(s)
        \/ LoadAttendance(s)
        \/ LoadMembers(s)
        \/ \E which \in {"att", "mem"} : CacheExpire(s, which)

SpecRace == Init /\ [][NextRace]_vars

\* the latest run of s was an add whose save went through
Added(s) ==
    /\ last[s].op \in {"roster", "manual"}
    /\ pc[s] = "idle"
    /\ out[s].kind = "success"

\* the record that add appended
NewRecord(s) == att[s].rows[Len(att[s].rows)]

\* C3: when two sessions have each added a record and saved, and the table of
\* the later writer b did not hold the record of a (b loaded before a saved),
\* the later save has overwritten the whole table: the attendance sheet is
\* b's table and a's record is not in it, although both saves reported success.
C3_LostUpdate ==
    \A a \in Sessions, b \in Sessions :
        ( /\ a # b
          /\ Added(a)
          /\ Added(b)
          /\ writer = b
          /\ NewRecord(a) \notin Range(att[b].rows) )
        => /\ NewRecord(a) \notin Range(ws.attendance.rows)
           /\ ws.attendance.rows = att[b].rows

----------------------------------------------------------------------------
(* Loading worksheets of any shape (SpecLoad) *)

\* the spreadsheet is shared and can be edited outside the program: the
\* worksheets below are the shapes load_attendance and load_members test for
MaxSheet == 2

SheetCols == {"Timestamp", "ServiceDate", "ServiceName", "Attendee", "Household", "Notes",
              "FirstName", "LastName", "Active", "Name", "When"}
Blank == [c \in SheetCols |-> ""]

\* the cells of one worksheet row under a header
Line(cols, rec) == List([i \in 1..Len(cols) |-> rec[cols[i]]])

\* sequences over S of length at most n
RECURSIVE SeqsUpTo(_, _)
SeqsUpTo(S, n) ==
    IF n = 0 THEN {<<>>}
    ELSE LET shorter == SeqsUpTo(S, n - 1)
         IN  shorter \cup {Append(q, x) : q \in shorter, x \in S}

AttHeaders ==
    { ATTENDANCE_COLS,
      <<"Timestamp", "ServiceDate", "ServiceName", "Attendee", "Notes">>,
      <<"Timestamp", "ServiceDate", "Household", "Notes">>,
      <<"Attendee", "Timestamp", "ServiceDate", "ServiceName", "Household", "Notes">>,
      <<"Name", "When">> }
AttRecords ==
    { Blank,
      [Blank EXCEPT !["Timestamp"] = Now, !["ServiceDate"] = "2024-01-07", !["ServiceName"] = "AM",
                    !["Attendee"] = "Ann Lee", !["Household"] = "2.5", !["Notes"] = "None",
                    !["Name"] = "Ann Lee"],
      [Blank EXCEPT !["Timestamp"] = Now, !["ServiceDate"] = "2024-01-07", !["ServiceName"] = "AM",
                    !["Attendee"] = "Bob Lee", !["Household"] = "inf", !["Name"] = "Bob Lee"],
      [Blank EXCEPT !["Timestamp"] = Now, !["ServiceDate"] = "2023-12-31", !["ServiceName"] = "AM",
                    !["Attendee"] = "Ann Lee", !["Household"] = "1e999", !["Name"] = "Ann Lee"],
      [Blank EXCEPT !["Timestamp"] = Now, !["ServiceName"] = "PM",
                    !["Attendee"] = "Bob Lee", !["Household"] = "two", !["Notes"] = "nan",
                    !["When"] = "PM"] }
AttSheets ==
    {ClearedSheet} \cup
    { [cols |-> h, rows |-> List([i \in 1..Len(q) |-> Line(h, q[i])])] :
          h \in AttHeaders, q \in SeqsUpTo(AttRecords, MaxSheet) }

MemHeaders == { MEMBER_COLS, <<"Attendee", "Active">>, <<"Name", "Active">> }
MemRecords ==
    { [Blank EXCEPT !["FirstName"] = " Ann", !["LastName"] = "Lee", !["Attendee"] = "Ann Lee",
                    !["Notes"] = "None", !["Active"] = "0", !["Name"] = "Ann Lee"],
      [Blank EXCEPT !["FirstName"] = "Bob", !["Attendee"] = "Bob Lee", !["Notes"] = "usher",
                    !["Active"] = "-Infinity", !["Name"] = "Bob Lee"] }
MemSheets ==
    { [cols |-> h, rows |-> List([i \in 1..Len(q) |-> Line(h, q[i])])] :
          h \in MemHeaders, q \in SeqsUpTo(MemRecords, 1) }

InitLoad ==
    /\ ws \in [attendance : AttSheets, members : MemSheets, absences : {EmptyFrame(ABSENCE_COLS)}]
    /\ cache = [s \in Sessions |-> [att |-> <<>>, mem |-> <<>>, abs |-> <<>>]]
    /\ is_admin = [s \in Sessions |-> FALSE]
    /\ pc = [s \in Sessions |-> "idle"]
    /\ job = [s \in Sessions |-> <<>>]
    /\ att = [s \in Sessions |-> EmptyFrame(ATTENDANCE_COLS)]
    /\ missing = [s \in Sessions |-> {}]
    /\ last = [s \in Sessions |-> NoRun]
    /\ out = [s \in Sessions |-> Outcome("none", {})]
    /\ view = [s \in Sessions |-> NoView]
    /\ writer = NoSession

NextLoad ==
    \E s \in Sessions :
        \/ \E svc_date \in Dates : Rerun(s, svc_date, "AM")
        \/ \E svc_date \in Dates : LoadRaise(s, "", "", svc_date, "AM")
        \/ \E which \in {"att", "mem"} : CacheExpire(s, which)

SpecLoad == InitLoad /\ [][NextLoad]_vars

\* the cell texts a load reads as a blank cell
MissingTexts ==
    {"", "nan", "NaN", "-nan", "-NaN", "NA", "N/A", "n/a", "#N/A", "#N/A N/A", "#NA", "<NA>", "NULL", "null",
     "None", "1.#IND", "-1.#IND", "1.#QNAN", "-1.#QNAN"}

\* a worksheet cell as a load reads it
Read(x) == IF x \in MissingTexts THEN "" ELSE x

\* the cell texts that are an infinite number: inf or infinity, with or
\* without a sign, in any letter case
InfiniteTexts == {"inf", "+inf", "-inf", "Inf", "INF", "infinity", "Infinity", "+Infinity", "-Infinity"}

\* the worksheet rows that are not blank in every cell
Kept(sheet) == SelectSeq(sheet.rows, LAMBDA r : \E i \in 1..Len(r) : Read(r[i]) # "")

\* the header tests of load_attendance and load_members pass
AttReadable(sheet) == Len(sheet.rows) > 0 /\ Len(sheet.cols) > 0 /\ sheet.cols[1] = "Timestamp"
MemReadable(sheet) ==
    Len(sheet.rows) > 0 /\ ({"FirstName", "Attendee"} \cap Range(sheet.cols) # {})

\* a kept row of a readable worksheet has an infinite number in column c
HasInfinite(sheet, c) ==
    /\ IndexOf(sheet.cols, c) # 0
    /\ \E i \in 1..Len(Kept(sheet)) : Kept(sheet)[i][IndexOf(sheet.cols, c)] \in InfiniteTexts

\* the integer column c of worksheet row r as a load gives it
ExpectedInt(sheet, r, c) ==
    LET k == IndexOf(sheet.cols, c)
    IN  IF k = 0 THEN "1"
        ELSE IF r[k] \in Numerals THEN IntToStr(StrToInt(r[k]))
        ELSE "1"

\* the text column c of worksheet row r as a load gives it: the empty string
\* for a column the worksheet lacks
ExpectedText(sheet, r, c) ==
    LET k == IndexOf(sheet.cols, c)
    IN  IF k = 0 THEN EmptyText ELSE Read(r[k])

\* the value load_attendance gives column c of a kept worksheet row r
Expected(sheet, r, c) ==
    IF c = "Household" THEN ExpectedInt(sheet, r, c)
    ELSE IF c = "ServiceDate" /\ IndexOf(sheet.cols, c) # 0 /\ ExpectedText(sheet, r, c) = "" THEN "nan"
    ELSE ExpectedText(sheet, r, c)

\* C7 (amended): a load that returns gives a table with exactly the canonical
\* columns. It has no rows when the worksheet has no data row or fails the
\* header test (attendance: the first header cell is not Timestamp; members:
\* the header has neither a FirstName nor an Attendee column). Otherwise it has
\* one row for every worksheet row that is not entirely blank, in order, also
\* when a required column is absent, where a cell whose text is a missing-value
\* marker of pandas (nan, NaN, NA, N/A, null, None, ...) counts and reads as
\* blank. In an attendance row a text column the worksheet lacks holds the
\* empty string, Household is the integer part of a cell that holds a finite
\* number in the 64-bit integer range and 1 for an absent column, a blank cell
\* or a text pandas does not parse as a number (two, or 1e999 whose exponent is
\* out of range), and a blank ServiceDate cell reads "nan". In a roster row
\* FirstName and LastName are the stripped cells (empty when absent), Attendee
\* is FirstName, a space and LastName, stripped, whatever the Attendee cell
\* held, Notes is the cell (the empty string when the column is absent) and
\* Active is coerced as Household is. When the worksheet passes the header test
\* and a Household cell (attendance) or an Active cell (roster) of a row that
\* is not entirely blank spells an infinite number (inf or infinity, with or
\* without a sign, in any letter case), the load raises an error instead of
\* returning a table, nothing is cached and the run ends with that uncaught
\* error.
C7_LoadNormalises ==
    \A s \in Sessions :
        /\ cache[s].att # <<>> =>
               LET a == cache[s].att[1]
                   ka == Kept(ws.attendance)
               IN  /\ a.cols = ATTENDANCE_COLS
                   /\ ~AttReadable(ws.attendance) => a.rows = <<>>
                   /\ AttReadable(ws.attendance) =>
                          /\ ~HasInfinite(ws.attendance, "Household")
                          /\ Len(a.rows) = Len(ka)
                          /\ \A i \in 1..Len(ka), k \in 1..Len(ATTENDANCE_COLS) :
                                 a.rows[i][k] = Expected(ws.attendance, ka[i], ATTENDANCE_COLS[k])
        /\ cache[s].mem # <<>> =>
               LET m == cache[s].mem[1]
                   km == Kept(ws.members)
               IN  /\ m.cols = MEMBER_COLS
                   /\ ~MemReadable(ws.members) => m.rows = <<>>
                   /\ MemReadable(ws.members) =>
                          /\ ~HasInfinite(ws.members, "Active")
                          /\ Len(m.rows) = Len(km)
                          /\ \A i \in 1..Len(km) :
                                 /\ m.rows[i][1] = strip(ExpectedText(ws.members, km[i], "FirstName"))
                                 /\ m.rows[i][2] = strip(ExpectedText(ws.members, km[i], "LastName"))
                                 /\ m.rows[i][3] = strip(m.rows[i][1] \o " " \o m.rows[i][2])
                                 /\ m.rows[i][4] = ExpectedText(ws.members, km[i], "Notes")
                                 /\ m.rows[i][5] = ExpectedInt(ws.members, km[i], "Active")
        /\ last[s].op # "none" =>
               /\ (AttReadable(ws.attendance) /\ HasInfinite(ws.attendance, "Household")) =>
                      cache[s].att = <<>> /\ out[s].kind = "uncaught"
               /\ (MemReadable(ws.members) /\ HasInfinite(ws.members, "Active")) =>
                      cache[s].mem = <<>> /\ out[s].kind = "uncaught"

\* C7 witness: a worksheet whose header starts with Timestamp and has no
\* Household column was loaded, and its row came back with Household 1.
C7_Witness ==
    \E s \in Sessions :
        /\ cache[s].att # <<>>
        /\ AttReadable(ws.attendance)
        /\ "Household" \in Lacking(ws.attendance.cols)
        /\ Len(Kept(ws.attendance)) = 1
        /\ Len(cache[s].att[1].rows) = 1
        /\ Cell(cache[s].att[1], cache[s].att[1].rows[1], "Household") = "1"
        /\ Cell(cache[s].att[1], cache[s].att[1].rows[1], "Attendee") = "Ann Lee"

\* C7 as stated: a worksheet that is empty, has a wrong header or lacks a
\* required column loads as the empty canonical table, and a well-formed one
\* loads as its rows.
Malformed(sheet) == Len(sheet.cols) = 0 \/ sheet.cols[1] # "Timestamp" \/ Lacking(sheet.cols) # {}
C7_MalformedLoadsEmpty ==
    \A s \in Sessions :
        cache[s].att # <<>> =>
            IF Malformed(ws.attendance) \/ IsEmpty(ws.attendance)
            THEN cache[s].att[1] = EmptyFrame(ATTENDANCE_COLS)
            ELSE Len(cache[s].att[1].rows) = Len(Kept(ws.attendance))

----------------------------------------------------------------------------
(* Deleting rows of a ledger (SpecDelete) *)

MaxLen == 3

\* rows as save_attendance writes them: every cell a string, Household an
\* integer numeral
SavedRows ==
    { <<Now, "2024-01-07", "AM", "Ann Lee", "1", "">>,
      <<Now, "2024-01-07", "PM", "Bob Lee", "2", "late">>,
      <<Now, "2023-12-31", "AM", "Ann Lee", "3", "">> }

\* a worksheet row whose cells were cleared in the spreadsheet
BlankRow == <<"", "", "", "", "", "">>

\* the ledger the program wrote, some rows cleared by hand in the spreadsheet
InitDelete ==
    /\ ws \in [attendance : { [cols |-> ATTENDANCE_COLS, rows |-> q] :
                                 q \in SeqsUpTo(SavedRows \cup {BlankRow}, MaxLen) \ {<<>>} },
               members : {EmptyFrame(MEMBER_COLS)}, absences : {EmptyFrame(ABSENCE_COLS)}]
    /\ cache = [s \in Sessions |-> [att |-> <<>>, mem |-> <<>>, abs |-> <<>>]]
    /\ is_admin = [s \in Sessions |-> TRUE]
    /\ pc = [s \in Sessions |-> "idle"]
    /\ job = [s \in Sessions |-> <<>>]
    /\ att = [s \in Sessions |-> EmptyFrame(ATTENDANCE_COLS)]
    /\ missing = [s \in Sessions |-> {}]
    /\ last = [s \in Sessions |-> NoRun]
    /\ out = [s \in Sessions |-> Outcome("none", {})]
    /\ view = [s \in Sessions |-> NoView]
    /\ writer = NoSession

NextDelete ==
    \/ \E svc_date \in Dates : Rerun("s1", svc_date, "AM")
    \/ \E idx \in 0..(MaxLen - 1), svc_date \in Dates : DeleteRow("s1", idx, svc_date, "AM")
    \/ SaveClear("s1")
    \/ SaveWrite("s1")
    \/ CacheExpire("s1", "att")

SpecDelete == InitDelete /\ [][NextDelete]_vars

\* a run of s in which Delete row is pressed is this step
Deletes(s) == pc[s] = "idle" /\ last'[s].op = "delete" /\ cache'[s].att # <<>>

\* C9: when Delete row is pressed with index p (0 <= p < len) on a loaded
\* table of len rows, a save starts and the table handed to it has len-1
\* rows: the rows before position p unchanged at their positions, the rows
\* after p unchanged and moved up by one, so positions run 0 .. len-2 with no
\* gap; and the save writes exactly that table to the attendance sheet.
C9_DeleteRemovesRowAtPosition ==
    [][\A s \in Sessions :
          /\ Deletes(s) =>
                 LET old == LoadedAtt(s).rows
                     p == last'[s].idx
                 IN  /\ p \in 0..(Len(old) - 1)
                     /\ pc'[s] = "clear"
                     /\ Len(job'[s]) = 1
                     /\ Len(job'[s][1].data.rows) = Len(old) - 1
                     /\ \A i \in 1..(Len(old) - 1) :
                            job'[s][1].data.rows[i] = IF i <= p THEN old[i] ELSE old[i + 1]
                     /\ att'[s].rows = job'[s][1].data.rows
          /\ (pc[s] = "write" /\ pc'[s] = "idle" /\ last[s].op = "delete") =>
                 /\ ws'.attendance.cols = ATTENDANCE_COLS
                 /\ ws'.attendance.rows = att[s].rows
                 /\ out'[s].kind = "success"
      ]_vars

----------------------------------------------------------------------------
(* Absentees of a service, over rosters and check-in lists (SpecAbsent) *)

MaxList == 2

\* roster rows as save_members writes them
RosterRows ==
    { <<"Ann", "Lee", "Ann Lee", "", "1">>,
      <<"Bob", "Lee", "Bob Lee", "", "1">>,
      <<"Bob", "Lee", "Bob Lee", "moved", "0">> }

\* check-ins of several services; an imported name can carry a space
CheckIns ==
    { <<Now, "2024-01-07", "AM", "Ann Lee", "1", "">>,
      <<Now, "2024-01-07", "AM", "Bob Lee ", "1", "">>,
      <<Now, "2024-01-07", "PM", "Bob Lee", "2", "">>,
      <<Now, "2023-12-31", "AM", "Ann Lee", "1", "">> }

ServiceDates == {"2024-01-07", "2023-12-31"}
ServiceNames == {"AM", " PM", ""}

InitAbsent ==
    /\ ws \in [attendance : { [cols |-> ATTENDANCE_COLS, rows |-> q] : q \in SeqsUpTo(CheckIns, MaxList) },
               members : { [cols |-> MEMBER_COLS, rows |-> q] : q \in SeqsUpTo(RosterRows, MaxList) },
               absences : {EmptyFrame(ABSENCE_COLS)}]
    /\ cache = [s \in Sessions |-> [att |-> <<>>, mem |-> <<>>, abs |-> <<>>]]
    /\ is_admin = [s \in Sessions |-> TRUE]
    /\ pc = [s \in Sessions |-> "idle"]
    /\ job = [s \in Sessions |-> <<>>]
    /\ att = [s \in Sessions |-> EmptyFrame(ATTENDANCE_COLS)]
    /\ missing = [s \in Sessions |-> {}]
    /\ last = [s \in Sessions |-> NoRun]
    /\ out = [s \in Sessions |-> Outcome("none", {})]
    /\ view = [s \in Sessions |-> NoView]
    /\ writer = NoSession

\* the admin picks a service and the page is drawn
NextAbsent ==
    \E svc_date \in ServiceDates, svc_name \in ServiceNames : Rerun("s1", svc_date, svc_name)

SpecAbsent == InitAbsent /\ [][NextAbsent]_vars

\* the roster has an active row of this name
ActiveMember(n) ==
    \E i \in 1..Len(ws.members.rows) :
        /\ ws.members.rows[i][5] = "1"
        /\ strip(ws.members.rows[i][3]) = n

\* a check-in of this name is on the list of the service (a blank service
\* name selects every service of the date)
Attended(n, svc_date, svc_name) ==
    \E i \in 1..Len(ws.attendance.rows) :
        /\ ws.attendance.rows[i][2] = svc_date
        /\ strip(svc_name) = "" \/ ws.attendance.rows[i][3] = strip(svc_name)
        /\ strip(ws.attendance.rows[i][4]) = n

RosterNames == {strip(ws.members.rows[i][3]) : i \in 1..Len(ws.members.rows)}

\* C10: on a page drawn for an admin, the absentee set holds exactly the names
\* (compared without surrounding spaces) that have an active roster row and no
\* check-in at the selected service; a name with no active row is never in
\* it, and it is empty when every active member checked in.
C10_AbsenteesAreSetDifference ==
    \A s \in Sessions :
        last[s].op = "rerun" =>
            LET d == last[s].date
                n == last[s].svc
            IN  /\ missing[s] = {x \in RosterNames : ActiveMember(x) /\ ~Attended(x, d, n)}
                /\ \A x \in missing[s] : ActiveMember(x)
                /\ (\A x \in RosterNames : ActiveMember(x) => Attended(x, d, n)) => missing[s] = {}

\* C10 witness: the roster has Ann Lee active and Bob Lee inactive, only Bob
\* Lee checked in at the selected service, and Ann Lee alone is absent.
C10_Witness ==
    /\ last["s1"].op = "rerun"
    /\ last["s1"].svc = " PM"
    /\ ActiveMember("Ann Lee")
    /\ ~ActiveMember("Bob Lee")
    /\ "Bob Lee" \in RosterNames
    /\ Attended("Bob Lee", last["s1"].date, last["s1"].svc)
    /\ Len(ws.attendance.rows) = 2
    /\ missing["s1"] = {"Ann Lee"}

----------------------------------------------------------------------------
(* The summary and the dashboard over ledgers of several services (SpecDash) *)

MaxDash == 3

\* rows of the attendance sheet; an import or an edit can leave the Attendee
\* cell blank, an add from the roster the ServiceName cell
DashRows ==
    { <<Now, "2023-12-24", "AM", "Ann Lee", "10", "">>,
      <<Now, "2023-12-31", "AM", "Bob Lee", "20", "">>,
      <<Now, "2024-01-07", "AM", "Ann Lee", "30", "">>,
      <<Now, "2024-01-07", "PM", "", "2", "">>,
      <<Now, "2024-01-07", "", "Bob Lee", "1", "">> }

InitDash ==
    /\ ws \in [attendance : { [cols |-> ATTENDANCE_COLS, rows |-> q] : q \in SeqsUpTo(DashRows, MaxDash) },
               members : {EmptyFrame(MEMBER_COLS)}, absences : {EmptyFrame(ABSENCE_COLS)}]
    /\ cache = [s \in Sessions |-> [att |-> <<>>, mem |-> <<>>, abs |-> <<>>]]
    /\ is_admin = [s \in Sessions |-> FALSE]
    /\ pc = [s \in Sessions |-> "idle"]
    /\ job = [s \in Sessions |-> <<>>]
    /\ att = [s \in Sessions |-> EmptyFrame(ATTENDANCE_COLS)]
    /\ missing = [s \in Sessions |-> {}]
    /\ last = [s \in Sessions |-> NoRun]
    /\ out = [s \in Sessions |-> Outcome("none", {})]
    /\ view = [s \in Sessions |-> NoView]
    /\ writer = NoSession

NextDash ==
    \E svc_date \in Dates :
        \/ Rerun("s1", svc_date, "AM")
        \/ \E w \in Windows : SlideRoll("s1", w, svc_date, "AM")

SpecDash == InitDash /\ [][NextDash]_vars

\* the (ServiceDate, ServiceName) pairs of the rows of a table
ServiceKeys(a) == {<<a.rows[i][2], a.rows[i][3]>> : i \in 1..Len(a.rows)}

\* the positions of the rows of a table with the pair k
RowsOf(a, k) == {i \in 1..Len(a.rows) : <<a.rows[i][2], a.rows[i][3]>> = k}

RECURSIVE SumOver(_, _)
SumOver(a, I) ==
    IF I = {} THEN 0
    ELSE LET i == CHOOSE j \in I : TRUE IN StrToInt(a.rows[i][5]) + SumOver(a, I \ {i})

\* C11: on a drawn page the totals-per-service table has one row for every
\* distinct (ServiceDate, ServiceName) pair of the ledger, rows with a blank
\* ServiceName or Attendee included; entries is the number of ledger rows of
\* the pair and people the sum of their Household; the rows ascend by
\* (ServiceDate, ServiceName).
C11_TotalsPerService ==
    \A s \in Sessions :
        (last[s].op \in {"rerun", "slide"} /\ out[s].kind = "none" /\ att[s].rows # <<>>) =>
            LET a == att[s]
                t == view[s].summary
            IN  /\ {<<t[i].ServiceDate, t[i].ServiceName>> : i \in 1..Len(t)} = ServiceKeys(a)
                /\ Len(t) = Cardinality(ServiceKeys(a))
                /\ \A i \in 1..Len(t) :
                       LET k == <<t[i].ServiceDate, t[i].ServiceName>>
                       IN  /\ t[i].entries = Cardinality(RowsOf(a, k))
                           /\ t[i].people = SumOver(a, RowsOf(a, k))
                /\ \A i \in 1..(Len(t) - 1) :
                       \/ Before(t[i].ServiceDate, t[i + 1].ServiceDate)
                       \/ /\ t[i].ServiceDate = t[i + 1].ServiceDate
                          /\ Before(t[i].ServiceName, t[i + 1].ServiceName)

----------------------------------------------------------------------------
(* Absence notes *)

\* the notes of a run that are not blank after trimming
Noted(run) == {e \in run.notes : strip(e[2]) # ""}

\* C12: when Save absence notes is pressed on the page of a Find run, the run
\* saves the absence ledger it loaded followed by exactly one row for every
\* absent member whose note is not blank, stamped with the current time and
\* the selected service date and name, and the save writes that table; when
\* every note is blank nothing is written and the run ends without an error.
C12_NotesAreSaved ==
    [][\A s \in Sessions :
          /\ (last[s].op = "find" /\ last'[s].op = "save_notes") =>
                 LET run == last'[s]
                     want == {<<Now, run.date, strip(run.svc), e[1], strip(e[2])>> : e \in Noted(run)}
                     old == LoadedAbs(s).rows
                 IN  IF want = {}
                     THEN ws' = ws /\ pc'[s] = "idle" /\ out'[s].kind \notin {"error", "uncaught"}
                     ELSE /\ pc'[s] = "clear"
                          /\ Len(job'[s]) = 1
                          /\ job'[s][1].name = ABSENCES_WS
                          /\ LET new == job'[s][1].data.rows
                             IN  /\ Len(new) = Len(old) + Cardinality(want)
                                 /\ \A i \in 1..Len(old) : new[i] = old[i]
                                 /\ {new[i] : i \in (Len(old) + 1)..Len(new)} = want
          /\ (pc[s] = "write" /\ pc'[s] = "idle" /\ last[s].op = "save_notes") =>
                 ws'.absences = job[s][1].data
      ]_vars

----------------------------------------------------------------------------
(* Household texts of the edit form (SpecEdit) *)

\* what an admin can type into New household
HouseholdEntries == {"1", "2", "3", "10", "0", "-1", "2.5", "-0.5", "", "abc"}

InitEdit ==
    /\ ws \in [attendance : { [cols |-> ATTENDANCE_COLS, rows |-> <<r>>] : r \in SavedRows },
               members : {EmptyFrame(MEMBER_COLS)}, absences : {EmptyFrame(ABSENCE_COLS)}]
    /\ cache = [s \in Sessions |-> [att |-> <<>>, mem |-> <<>>, abs |-> <<>>]]
    /\ is_admin = [s \in Sessions |-> TRUE]
    /\ pc = [s \in Sessions |-> "idle"]
    /\ job = [s \in Sessions |-> <<>>]
    /\ att = [s \in Sessions |-> EmptyFrame(ATTENDANCE_COLS)]
    /\ missing = [s \in Sessions |-> {}]
    /\ last = [s \in Sessions |-> NoRun]
    /\ out = [s \in Sessions |-> Outcome("none", {})]
    /\ view = [s \in Sessions |-> NoView]
    /\ writer = NoSession

NextEdit ==
    \/ \E svc_date \in Dates : Rerun("s1", svc_date, "AM")
    \/ \E h \in HouseholdEntries, t \in EditNotes \cup {"on time"}, svc_date \in Dates :
           ApplyEdit("s1", 0, "Ann Lee", h, t, svc_date, "AM")
    \/ SaveClear("s1")
    \/ SaveWrite("s1")

SpecEdit == InitEdit /\ [][NextEdit]_vars

\* the text is the numeral of a positive integer
PositiveInteger(x) == x \in Numerals /\ Tenths(x) > 0 /\ Tenths(x) % 10 = 0

\* C13: the Household an edit stores is the typed value when that is a
\* positive integer, and 1 for any other text (not a number, zero, negative,
\* empty, or a number that is not an integer).
C13_ToIntKeepsOrOne ==
    \A s \in Sessions :
        (last[s].op = "edit" /\ pc[s] = "clear") =>
            att[s].rows[last[s].idx + 1][5] = IF PositiveInteger(last[s].house) THEN last[s].house ELSE "1"

\* the sum of the people values at positions lo..hi of the daily series
RECURSIVE WindowSum(_, _, _)
WindowSum(d, lo, hi) == IF lo > hi THEN 0 ELSE d[hi].people + WindowSum(d, lo, hi - 1)

\* C14: on a drawn dashboard with the slider at w (1..8), the roll value at
\* position i (from 0) of the daily series is undefined for i < w-1 and
\* otherwise the sum of the people values at positions i-w+1..i divided by
\* w; the series 10, 20, 30 with w = 2 gives undefined, 15, 25; with w = 1
\* roll equals people at every position.
C14_RollingMean ==
    \A s \in Sessions :
        (last[s].op \in {"rerun", "slide"} /\ out[s].kind = "none" /\ att[s].rows # <<>>) =>
            LET d == view[s].daily
                r == view[s].roll
                w == view[s].window
            IN  /\ w \in Windows
                /\ Len(r) = Len(d)
                /\ \A i \in 0..(Len(d) - 1) :
                       IF i < w - 1 THEN r[i + 1] = NaN
                       ELSE /\ r[i + 1].den = w
                            /\ r[i + 1].num = WindowSum(d, i - w + 2, i + 1)
                /\ (w = 2 /\ Len(d) = 3 /\ d[1].people = 10 /\ d[2].people = 20 /\ d[3].people = 30) =>
                       /\ r[1] = NaN
                       /\ r[2].num = 15 * r[2].den /\ r[2].den > 0
                       /\ r[3].num = 25 * r[3].den /\ r[3].den > 0
                /\ w = 1 => \A i \in 1..Len(d) : r[i].den = 1 /\ r[i].num = d[i].people

\* C14 witness: the daily series 10, 20, 30 is drawn with the slider at 2 and
\* the roll values are undefined, 30/2 and 50/2.
C14_Witness ==
    /\ last["s1"].op = "slide"
    /\ view["s1"].window = 2
    /\ Len(view["s1"].daily) = 3
    /\ view["s1"].daily[1].people = 10
    /\ view["s1"].daily[2].people = 20
    /\ view["s1"].daily[3].people = 30
    /\ view["s1"].roll = <<NaN, [num |-> 30, den |-> 2], [num |-> 50, den |-> 2]>>

----------------------------------------------------------------------------
(* Admin gating *)

\* the runs of the handlers that are drawn for the admin only
Privileged == {"edit", "delete", "delete_service", "import", "import_roster", "save_notes"}

\* C15: is_admin starts false; it becomes true only in an Unlock run whose
\* PIN input equals ADMIN_PIN exactly; a Lock admin run leaves it false; the
\* handlers of edit, delete, attendance and roster import, delete-service
\* and absence-note save run only in a session whose is_admin is true, and
\* every write of such a run to a worksheet happens while it is true.
C15_AdminGating ==
    /\ \A s \in Sessions : ~is_admin[s]
    /\ [][\A s \in Sessions :
            /\ (~is_admin[s] /\ is_admin'[s]) =>
                   (last'[s].op = "unlock" /\ last'[s].name = ADMIN_PIN /\ pc[s] = "idle")
            /\ (last'[s] # last[s] /\ last'[s].op = "unlock" /\ last'[s].name # ADMIN_PIN) => ~is_admin'[s]
            /\ (last'[s] # last[s] /\ last'[s].op = "lock") => ~is_admin'[s]
            /\ ((last'[s] # last[s] \/ (pc[s] = "idle" /\ pc'[s] = "clear")) /\ last'[s].op \in Privileged) =>
                   (is_admin[s] /\ is_admin'[s])
            /\ (pc[s] # "idle" /\ pc'[s] # pc[s] /\ ws' # ws /\ last[s].op \in Privileged) =>
                   (is_admin[s] /\ is_admin'[s])
       ]_vars

\* C15 witness: after an Unlock with the right PIN a roster import was saved,
\* the admin mode still on.
C15_Witness ==
    /\ is_admin["s1"]
    /\ last["s1"].op = "import_roster"
    /\ out["s1"].kind = "success"
    /\ pc["s1"] = "idle"
    /\ ws.members.rows = << <<"Ann", "Lee", "Ann Lee", "", "1">> >>

============================================================================
